---- MODULE Spec2Model ----
(***************************************************************************)
(* A model of AnalyticsChatAgent/agent.py: the SQL sanitizer _clean_sql,   *)
(* the query tool run_postgres_query and the per-message orchestrator      *)
(* chat.                                                                   *)
(*                                                                         *)
(* Text is modelled character by character: a Python str is a sequence of  *)
(* one-character strings, so that the regular expressions and the strip /  *)
(* split calls of the source are computed, not assumed.                    *)
(***************************************************************************)
EXTENDS Integers, Sequences, FiniteSets, TLC

VARIABLES
    \* _clean_sql, called on its own
    sql_text, cleaned, clean_pc,
    \* one call of run_postgres_query
    q_pc, sql, max_rows, sql_clean, conn_open, conns_opened, conns_closed,
    executed, db_rows, payload, q_pending, q_error,
    \* one run of the chat handler
    pc, route_text, route, response, agent_output, generated_sql,
    results_json, summary_prompt, summary_text, outbox, invoked, tool_calls,
    chunk_count,
    \* the agents whose stream is open, and the chunks the stream being read
    \* has delivered so far, in arrival order
    streaming, delivered

clean_vars == <<sql_text, cleaned, clean_pc>>

query_vars == <<q_pc, sql, max_rows, sql_clean, conn_open, conns_opened,
                conns_closed, executed, db_rows, payload, q_pending, q_error>>

chat_vars == <<pc, route_text, route, response, agent_output, generated_sql,
               results_json, summary_prompt, summary_text, outbox, invoked,
               tool_calls, chunk_count, streaming, delivered>>

vars == <<clean_vars, query_vars, chat_vars>>

----------------------------------------------------------------------------
(* Bounds of the model.                                                    *)

\* chunks in an input of _clean_sql checked on its own
MaxCleanChunks == 5
\* chunks in the sql argument of run_postgres_query
MaxQueryChunks == 2
\* rows the database returns for one query
MaxDbRows == 2
\* largest absolute value of the max_rows argument
MaxRowsArg == 2
\* chunks the router stream delivers when the router is the subject
MaxRouterChunks == 3
\* chunks sql_agent's stream delivers
MaxSqlChunks == 3
\* chunks of a stream that is not the subject of the specification
MaxPlainChunks == 1
\* tool calls sql_agent makes in one turn
MaxToolCalls == 1
\* chunks general_agent's and summarizer_agent's streams deliver
MaxAnswerChunks == 2
\* largest row count of the results objects the properties range over
MaxCount == 3

----------------------------------------------------------------------------
(* Python text primitives.                                                 *)

\* the quote characters, named once; the grave accent U+0060 (the backtick of
\* a code fence) is written as the symbol "BACKTICK"
Apostrophe == "'"

DoubleQuote == "\""

Backtick == "BACKTICK"

\* str.strip() and the \s of the regular expressions
Whitespace == {" ", "\n", "\t", "\r"}

UpperCase == <<"A","B","C","D","E","F","G","H","I","J","K","L","M",
               "N","O","P","Q","R","S","T","U","V","W","X","Y","Z">>

LowerCase == <<"a","b","c","d","e","f","g","h","i","j","k","l","m",
               "n","o","p","q","r","s","t","u","v","w","x","y","z">>

Digits == <<"0","1","2","3","4","5","6","7","8","9">>

Range(s) == {s[i] : i \in 1..Len(s)}

\* the \w of the regular expressions
WordChars == Range(UpperCase) \cup Range(LowerCase) \cup Range(Digits) \cup {"_"}

\* re.IGNORECASE compares characters after case folding
LowerChar(c) ==
    IF c \in Range(UpperCase)
    THEN LowerCase[CHOOSE i \in 1..Len(UpperCase) : UpperCase[i] = c]
    ELSE c

Lower(s) == [i \in 1..Len(s) |-> LowerChar(s[i])]

Min(a, b) == IF a <= b THEN a ELSE b

Max(a, b) == IF a >= b THEN a ELSE b

\* s[n:] for n >= 0
Drop(s, n) == SubSeq(s, n + 1, Len(s))

\* s[:n] for n >= 0
Take(s, n) == SubSeq(s, 1, Min(n, Len(s)))

\* p occurs in s at position i
HasAt(s, i, p) == i >= 1 /\ i + Len(p) - 1 <= Len(s) /\ SubSeq(s, i, i + Len(p) - 1) = p

\* p occurs in s at position i, letter case ignored
HasAtCI(s, i, p) == HasAt(Lower(s), i, Lower(p))

\* p in s
Contains(s, p) == \E i \in 1..(Len(s) + 1) : HasAt(s, i, p)

RECURSIVE LStrip(_, _)
\* str.lstrip(chars)
LStrip(s, chars) ==
    IF s # <<>> /\ s[1] \in chars THEN LStrip(Tail(s), chars) ELSE s

RECURSIVE RStrip(_, _)
\* str.rstrip(chars)
RStrip(s, chars) ==
    IF s # <<>> /\ s[Len(s)] \in chars THEN RStrip(SubSeq(s, 1, Len(s) - 1), chars) ELSE s

\* str.strip(chars)
StripChars(s, chars) == RStrip(LStrip(s, chars), chars)

\* str.strip()
Strip(s) == StripChars(s, Whitespace)

\* re.sub(r"\n", " ", s)
ReplaceNewlines(s) == [i \in 1..Len(s) |-> IF s[i] = "\n" THEN " " ELSE s[i]]

RECURSIVE Split(_, _)
\* s.split(sep) for a one-character separator: always at least one part
Split(s, sep) ==
    IF \A i \in 1..Len(s) : s[i] # sep
    THEN <<s>>
    ELSE LET k == CHOOSE i \in 1..Len(s) :
                      s[i] = sep /\ \A j \in 1..(i - 1) : s[j] # sep
         IN  <<SubSeq(s, 1, k - 1)>> \o Split(Drop(s, k), sep)

----------------------------------------------------------------------------
(* _clean_sql                                                              *)

Fence == <<Backtick, Backtick, Backtick>>

FenceSql == Fence \o <<"s", "q", "l">>

\* line 35, re.sub with IGNORECASE of an opening fence (three backticks, or
\* three backticks and sql) and the whitespace after it: the pattern is
\* anchored at the start of the text, the tagged alternative is tried first
StripOpeningFence(s) ==
    IF HasAtCI(s, 1, FenceSql) THEN LStrip(Drop(s, Len(FenceSql)), Whitespace)
    ELSE IF HasAt(s, 1, Fence) THEN LStrip(Drop(s, Len(Fence)), Whitespace)
    ELSE s

\* positions where the pattern of line 36 matches: a fence with only
\* whitespace between it and the end of the text
ClosingFenceAt(s) ==
    {i \in 1..Len(s) : HasAt(s, i, Fence) /\ LStrip(Drop(s, i + 2), Whitespace) = <<>>}

\* line 36, re.sub of a closing fence: the leftmost match is removed, to the end
StripClosingFence(s) ==
    IF ClosingFenceAt(s) = {} THEN s
    ELSE LET i == CHOOSE k \in ClosingFenceAt(s) : \A j \in ClosingFenceAt(s) : k <= j
         IN  SubSeq(s, 1, i - 1)

\* line 39: strip(), then strip of double quotes, then strip of single quotes
StripQuotes(s) == StripChars(StripChars(Strip(s), {DoubleQuote}), {Apostrophe})

\* [p.strip() for p in sql.split(";") if p.strip()]
Statements(s) == SelectSeq([i \in 1..Len(Split(s, ";")) |-> Strip(Split(s, ";")[i])],
                           LAMBDA p : p # <<>>)

\* if ";" in sql: parts = [...]; if parts: sql = parts[0]
FirstStatement(s) ==
    IF ";" \in Range(s) /\ Statements(s) # <<>> THEN Statements(s)[1] ELSE s

_clean_sql(text) ==
    FirstStatement(StripQuotes(ReplaceNewlines(StripClosingFence(StripOpeningFence(Strip(text))))))

----------------------------------------------------------------------------
(* Inputs.                                                                 *)

RECURSIVE Texts(_, _)
\* the texts made of at most n chunks of an alphabet
Texts(chunks, n) ==
    IF n = 0 THEN {<<>>}
    ELSE LET shorter == Texts(chunks, n - 1)
         IN  shorter \cup {t \o c : t \in shorter, c \in chunks}

\* pieces of model output handed to _clean_sql
CleanChunks ==
    { FenceSql \o <<"\n">>,
      Fence,
      <<"a">>,
      <<";">>,
      <<"\n">>,
      <<Apostrophe>>,
      <<DoubleQuote>> }

----------------------------------------------------------------------------
(* The three parts of the program at rest.                                 *)

NoPayload == [row_count |-> 0, returned_rows |-> 0, columns |-> <<>>, rows |-> <<>>]

NoResponse == [content |-> <<>>, streamed |-> 0, sent |-> FALSE]

NoPrompt == [request |-> "", sql |-> <<>>, results |-> <<>>]

CleanIdle == sql_text = <<>> /\ cleaned = <<>> /\ clean_pc = "idle"

QueryIdle ==
    /\ q_pc = "idle" /\ sql = <<>> /\ max_rows = 0 /\ sql_clean = <<>>
    /\ conn_open = FALSE /\ conns_opened = 0 /\ conns_closed = 0
    /\ executed = <<>> /\ db_rows = <<>> /\ payload = NoPayload
    /\ q_pending = "none" /\ q_error = "none"

ChatIdle ==
    /\ pc = "idle" /\ route_text = <<>> /\ route = "unset" /\ response = NoResponse
    /\ agent_output = <<>> /\ generated_sql = <<>> /\ results_json = <<>>
    /\ summary_prompt = NoPrompt /\ summary_text = <<>> /\ outbox = <<>>
    /\ invoked = <<>> /\ tool_calls = 0 /\ chunk_count = 0
    /\ streaming = {} /\ delivered = <<>>

----------------------------------------------------------------------------
(* _clean_sql on its own: the input is drawn, the function is applied.     *)

InitClean ==
    /\ sql_text \in Texts(CleanChunks, MaxCleanChunks)
    /\ cleaned = <<>>
    /\ clean_pc = "call"
    /\ QueryIdle
    /\ ChatIdle

CleanSql ==
    /\ clean_pc = "call"
    /\ cleaned' = _clean_sql(sql_text)
    /\ clean_pc' = "done"
    /\ UNCHANGED <<sql_text, query_vars, chat_vars>>

NextClean == CleanSql

SpecClean == InitClean /\ [][NextClean]_vars

----------------------------------------------------------------------------
(* run_postgres_query                                                      *)

SelectKw == <<"s","e","l","e","c","t">>

\* line 65, re.match(r"^\s*select\b", sql_clean, flags=re.IGNORECASE): leading
\* whitespace is skipped, then the word select, then a word boundary
SelectMatch(s) ==
    LET t == LStrip(s, Whitespace)
    IN  /\ HasAtCI(t, 1, SelectKw)
        /\ IF Len(t) = Len(SelectKw) THEN TRUE
                                    ELSE t[Len(SelectKw) + 1] \notin WordChars

\* line 81, the default of _truncate_val: the longest string cell kept whole
max_len == 2000

Ellipsis == <<".", ".", ".">>

\* a cell of a result row: an integer (kind "int") or a string (kind "str")
IntCell(n) == [kind |-> "int", int |-> n, text |-> <<>>]

StrCell(t) == [kind |-> "str", int |-> 0, text |-> t]

\* the mutant of _truncate_val: the cut leaves no room for the three dots
_truncate_val_no_room(v) ==
    IF v.kind = "str" /\ Len(v.text) > max_len
    THEN StrCell(Take(v.text, max_len) \o Ellipsis)
    ELSE v

\* lines 81-84: a string longer than max_len is cut to max_len - 3 characters
\* and three dots; anything else is returned as it is
_truncate_val(v) ==
    IF v.kind = "str" /\ Len(v.text) > max_len
    THEN StrCell(Take(v.text, max_len - 3) \o Ellipsis)
    ELSE v

\* rows[:max_rows]: a negative bound counts from the end
PySlice(rows, m) ==
    IF m >= 0 THEN Take(rows, m) ELSE Take(rows, Max(0, Len(rows) + m))

\* the column names of the result, in the order of the select list
ColumnNames == <<"c1", "c2">>

\* list(row.keys()) of a row converted by dict(r): a row is the sequence of
\* its cells, the i-th under the i-th column name
Keys(row) == Take(ColumnNames, Len(row))

\* lines 79-88: the rows kept, each cell truncated
ListRows(rows, m) ==
    [i \in 1..Len(PySlice(rows, m)) |->
        [j \in 1..Len(rows[i]) |-> _truncate_val(rows[i][j])]]

\* the mutant of BuildPayload: the columns are read off the first row fetched,
\* not off the first row kept
BuildPayloadColumnsOfFetched(rows, m) ==
    [row_count     |-> Len(rows),
     returned_rows |-> Len(ListRows(rows, m)),
     columns       |-> IF rows # <<>> THEN Keys(rows[1]) ELSE <<>>,
     rows          |-> ListRows(rows, m)]

\* lines 90-95
BuildPayload(rows, m) ==
    [row_count     |-> Len(rows),
     returned_rows |-> Len(ListRows(rows, m)),
     columns       |-> IF ListRows(rows, m) # <<>> THEN Keys(ListRows(rows, m)[1]) ELSE <<>>,
     rows          |-> ListRows(rows, m)]

\* pieces of the sql argument
QueryChunks ==
    { SelectKw,
      <<"S","E","L","E","C","T"," ","1">>,
      <<"x">>,
      <<";">>,
      <<Apostrophe, "\n">>,
      <<"d","r","o","p"," ","t">>,
      <<";","d","r","o","p"," ","t">>,
      <<"w","i","t","h"," ">> }

\* the values of the max_rows argument, an int
MaxRowsValues == (0 - MaxRowsArg)..MaxRowsArg

\* how many columns a result has; a select with an empty select list has none
ColCounts == {0, 1}

\* a string cell one character longer than max_len, its characters telling
\* their positions apart
LongText == [i \in 1..(max_len + 1) |-> Digits[(i % 10) + 1]]

\* the longest string cell that is kept whole
FullText == [i \in 1..max_len |-> Digits[(i % 10) + 1]]

CellValues == {IntCell(7), StrCell(<<"a", "b">>), StrCell(FullText), StrCell(LongText)}

\* the result sets conn.fetch may return: rows of one width
DbResults ==
    UNION {[1..n -> [1..nc -> CellValues]] : n \in 0..MaxDbRows, nc \in ColCounts}

InitQuery ==
    /\ q_pc = "call"
    /\ sql \in Texts(QueryChunks, MaxQueryChunks)
    /\ max_rows \in MaxRowsValues
    /\ sql_clean = <<>>
    /\ conn_open = FALSE /\ conns_opened = 0 /\ conns_closed = 0
    /\ executed = <<>> /\ db_rows = <<>> /\ payload = NoPayload
    /\ q_pending = "none" /\ q_error = "none"
    /\ CleanIdle
    /\ ChatIdle

\* lines 64-66: the sanitized statement is not a select: ValueError
QReject ==
    /\ q_pc = "call"
    /\ ~SelectMatch(_clean_sql(sql))
    /\ sql_clean' = _clean_sql(sql)
    /\ q_pc' = "raised"
    /\ q_error' = "ValueError"
    /\ UNCHANGED <<sql, max_rows, conn_open, conns_opened, conns_closed, executed,
                   db_rows, payload, q_pending, clean_vars, chat_vars>>

\* the mutant of QConnect: the connection is opened before the statement is
\* looked at
QConnectUnchecked ==
    /\ q_pc = "call"
    /\ sql_clean' = _clean_sql(sql)
    /\ conn_open' = TRUE
    /\ conns_opened' = conns_opened + 1
    /\ q_pc' = "connected"
    /\ UNCHANGED <<sql, max_rows, conns_closed, executed, db_rows, payload,
                   q_pending, q_error, clean_vars, chat_vars>>

\* lines 64-75: the sanitized statement is a select and asyncpg.connect returns
QConnect ==
    /\ q_pc = "call"
    /\ SelectMatch(_clean_sql(sql))
    /\ sql_clean' = _clean_sql(sql)
    /\ conn_open' = TRUE
    /\ conns_opened' = conns_opened + 1
    /\ q_pc' = "connected"
    /\ UNCHANGED <<sql, max_rows, conns_closed, executed, db_rows, payload,
                   q_pending, q_error, clean_vars, chat_vars>>

\* lines 64-75: the sanitized statement is a select and asyncpg.connect raises:
\* there is no connection, and the try block is never entered
QConnectFails ==
    /\ q_pc = "call"
    /\ SelectMatch(_clean_sql(sql))
    /\ sql_clean' = _clean_sql(sql)
    /\ q_pc' = "raised"
    /\ q_error' = "ConnectionError"
    /\ UNCHANGED <<sql, max_rows, conn_open, conns_opened, conns_closed, executed,
                   db_rows, payload, q_pending, clean_vars, chat_vars>>

\* the mutant of QFetch: the raw argument is sent to the database
QFetchRaw ==
    /\ q_pc = "connected"
    /\ \E rows \in DbResults, serialized \in BOOLEAN :
        /\ db_rows' = rows
        /\ payload' = BuildPayload(rows, max_rows)
        /\ q_pending' = IF serialized THEN "return" ELSE "TypeError"
    /\ executed' = Append(executed, sql)
    /\ q_pc' = "finally"
    /\ UNCHANGED <<sql, max_rows, sql_clean, conn_open, conns_opened, conns_closed,
                   q_error, clean_vars, chat_vars>>

\* lines 77-97: conn.fetch returns; the payload is built and serialized, which
\* either gives the value to return or raises; the finally block is next
QFetch ==
    /\ q_pc = "connected"
    /\ \E rows \in DbResults, serialized \in BOOLEAN :
        /\ db_rows' = rows
        /\ payload' = BuildPayload(rows, max_rows)
        /\ q_pending' = IF serialized THEN "return" ELSE "TypeError"
    /\ executed' = Append(executed, sql_clean)
    /\ q_pc' = "finally"
    /\ UNCHANGED <<sql, max_rows, sql_clean, conn_open, conns_opened, conns_closed,
                   q_error, clean_vars, chat_vars>>

\* the mutant of QFetchFails: no finally block, the error leaves the call at once
QFetchFailsUnclosed ==
    /\ q_pc = "connected"
    /\ executed' = Append(executed, sql_clean)
    /\ q_pending' = "PostgresError"
    /\ q_error' = "PostgresError"
    /\ q_pc' = "raised"
    /\ UNCHANGED <<sql, max_rows, sql_clean, conn_open, conns_opened, conns_closed,
                   db_rows, payload, clean_vars, chat_vars>>

\* line 77: conn.fetch raises; the error is pending while the finally block runs
QFetchFails ==
    /\ q_pc = "connected"
    /\ executed' = Append(executed, sql_clean)
    /\ q_pending' = "PostgresError"
    /\ q_pc' = "finally"
    /\ UNCHANGED <<sql, max_rows, sql_clean, conn_open, conns_opened, conns_closed,
                   db_rows, payload, q_error, clean_vars, chat_vars>>

\* lines 98-99: the finally block closes the connection, then the call returns
\* the serialized payload or the pending error propagates
QClose ==
    /\ q_pc = "finally"
    /\ conn_open' = FALSE
    /\ conns_closed' = conns_closed + 1
    /\ q_pc' = IF q_pending = "return" THEN "returned" ELSE "raised"
    /\ q_error' = IF q_pending = "return" THEN "none" ELSE q_pending
    /\ UNCHANGED <<sql, max_rows, sql_clean, conns_opened, executed, db_rows,
                   payload, q_pending, clean_vars, chat_vars>>

NextQuery ==
    \/ QReject
    \/ QConnect
    \/ QConnectFails
    \/ QFetch
    \/ QFetchFails
    \/ QClose

SpecQuery == InitQuery /\ [][NextQuery]_vars

----------------------------------------------------------------------------
(* chat: the texts it searches for and builds.                             *)

RouteLabel == <<"R","O","U","T","E",":">>

SqlWord == <<"S","Q","L">>

SqlLabel == <<"S","Q","L",":">>

ResultJsonLabel == <<"R","E","S","U","L","T","_","J","S","O","N",":">>

\* line 275: the text the SQL pattern captures when the SQL line is empty
EmptySqlSentinel == <<"R","E","S","U","L","T","_","J","S","O","N",":"," ","{","}">>

\* line 273: the results text when the output holds no RESULT_JSON object
EmptyObject == <<"{","}">>

GeneratedSqlPrefix == <<"G","e","n","e","r","a","t","e","d"," ","S","Q","L",":","\n">>

ExecutedQueryPrefix == <<"E","x","e","c","u","t","e","d"," ","q","u","e","r","y","."," ">>

ReturnedRowsKey == <<"r","e","t","u","r","n","e","d","_","r","o","w","s">>

RowCountKey == <<"r","o","w","_","c","o","u","n","t">>

\* the first position from i on that holds no whitespace (one past the end when
\* there is none): where a \s* that starts at i stops
SkipWs(s, i) ==
    CHOOSE j \in i..(Len(s) + 1) :
        /\ \A k \in i..(j - 1) : s[k] \in Whitespace
        /\ IF j = Len(s) + 1 THEN TRUE ELSE s[j] \notin Whitespace

\* the leftmost position of a non-empty set of positions
Leftmost(S) == CHOOSE i \in S : \A j \in S : i <= j

\* the mutant of RouteSearch: the flag re.IGNORECASE is missing
RouteSearchCaseSensitive(t) ==
    \E i \in 1..Len(t) :
        /\ HasAt(t, i, RouteLabel)
        /\ HasAt(t, SkipWs(t, i + Len(RouteLabel)), SqlWord)

\* line 231, re.search(r"ROUTE:\s*SQL", route_text, flags=re.IGNORECASE)
RouteSearch(t) ==
    \E i \in 1..Len(t) :
        /\ HasAtCI(t, i, RouteLabel)
        /\ HasAtCI(t, SkipWs(t, i + Len(RouteLabel)), SqlWord)

\* line 270, re.search(r"SQL:\s*(.*)", agent_output): the positions where the
\* label stands; the pattern matches at each of them
SqlMatches(t) == {i \in 1..Len(t) : HasAt(t, i, SqlLabel)}

\* group(1) of the leftmost match: the whitespace after the label is skipped,
\* newlines included, and the capture runs to the end of that line
SqlGroup(t) ==
    LET from == SkipWs(t, Leftmost(SqlMatches(t)) + Len(SqlLabel))
        to   == CHOOSE j \in from..(Len(t) + 1) :
                    /\ \A k \in from..(j - 1) : t[k] # "\n"
                    /\ IF j = Len(t) + 1 THEN TRUE ELSE t[j] = "\n"
    IN  SubSeq(t, from, to - 1)

\* line 271
ExtractSql(t) == IF SqlMatches(t) # {} THEN _clean_sql(SqlGroup(t)) ELSE <<>>

\* the positions of the closing braces of a text
ClosingBraces(t) == {k \in 1..Len(t) : t[k] = "}"}

\* line 272, re.search(r"RESULT_JSON:\s*(\{.*\})", agent_output, re.DOTALL): the
\* positions where the label stands with an opening brace after it, whitespace
\* aside, and a closing brace somewhere after that
JsonMatches(t) ==
    {i \in 1..Len(t) :
        /\ HasAt(t, i, ResultJsonLabel)
        /\ HasAt(t, SkipWs(t, i + Len(ResultJsonLabel)), <<"{">>)
        /\ \E k \in ClosingBraces(t) : k > SkipWs(t, i + Len(ResultJsonLabel))}

\* group(1) of the leftmost match: from the opening brace to the last closing
\* brace of the text, the .* being greedy and crossing newlines
JsonGroup(t) ==
    SubSeq(t, SkipWs(t, Leftmost(JsonMatches(t)) + Len(ResultJsonLabel)),
              CHOOSE k \in ClosingBraces(t) : \A j \in ClosingBraces(t) : j <= k)

\* line 273
ExtractJson(t) == IF JsonMatches(t) # {} THEN JsonGroup(t) ELSE EmptyObject

----------------------------------------------------------------------------
(* json.loads and the f-string of line 282, for the results texts of the   *)
(* model: an object whose members are integers under string keys. A text   *)
(* of any other shape is not drawn as an input.                            *)

\* the character at position i, or the empty text past the end
CharAt(s, i) == IF i >= 1 /\ i <= Len(s) THEN s[i] ELSE ""

DigitValue(c) == CHOOSE d \in 0..9 : Digits[d + 1] = c

RECURSIVE DecimalValue(_)
\* int() of a run of digits
DecimalValue(ds) ==
    IF ds = <<>> THEN 0
    ELSE 10 * DecimalValue(SubSeq(ds, 1, Len(ds) - 1)) + DigitValue(ds[Len(ds)])

RECURSIVE DecimalDigits(_)
\* the digits of a natural number
DecimalDigits(n) ==
    IF n < 10 THEN <<Digits[n + 1]>>
    ELSE DecimalDigits(n \div 10) \o <<Digits[(n % 10) + 1]>>

\* str() of an int, as the f-string formats it
Str(n) == IF n < 0 THEN <<"-">> \o DecimalDigits(0 - n) ELSE DecimalDigits(n)

\* one past the run of digits that starts at i
DigitsEnd(s, i) ==
    CHOOSE j \in i..(Len(s) + 1) :
        /\ \A k \in i..(j - 1) : s[k] \in Range(Digits)
        /\ CharAt(s, j) \notin Range(Digits)

\* a JSON integer at position i: an optional minus sign, then digits with no
\* leading zero; a fraction or an exponent after it is not of the model
ParseInt(s, i) ==
    LET first == IF CharAt(s, i) = "-" THEN i + 1 ELSE i
        end   == DigitsEnd(s, first)
        ds    == SubSeq(s, first, end - 1)
    IN  IF end = first THEN [ok |-> FALSE, val |-> 0, next |-> i]
        ELSE IF ds[1] = "0" /\ Len(ds) > 1 THEN [ok |-> FALSE, val |-> 0, next |-> i]
        ELSE IF CharAt(s, end) \in {".", "e", "E"} THEN [ok |-> FALSE, val |-> 0, next |-> i]
        ELSE [ok   |-> TRUE,
              val  |-> IF first = i THEN DecimalValue(ds) ELSE 0 - DecimalValue(ds),
              next |-> end]

\* a JSON string at position i, as a key: from one double quote to the next,
\* with no escape and no control character in between
ParseKey(s, i) ==
    IF CharAt(s, i) # DoubleQuote \/ \A k \in (i + 1)..Len(s) : s[k] # DoubleQuote
    THEN [ok |-> FALSE, key |-> <<>>, next |-> i]
    ELSE LET close == CHOOSE k \in (i + 1)..Len(s) :
                          s[k] = DoubleQuote /\ \A j \in (i + 1)..(k - 1) : s[j] # DoubleQuote
             key   == SubSeq(s, i + 1, close - 1)
         IN  [ok   |-> Range(key) \cap {"\\", "\n", "\t", "\r"} = {},
              key  |-> key,
              next |-> close + 1]

NoObject == [ok |-> FALSE, members |-> <<>>]

RECURSIVE ParseMembers(_, _, _)
\* the members of an object from position i on, after those of acc: a key, a
\* colon, an integer, then a comma and more members or the closing brace, after
\* which only whitespace may follow
ParseMembers(s, i, acc) ==
    LET k     == ParseKey(s, SkipWs(s, i))
        colon == SkipWs(s, k.next)
        v     == ParseInt(s, SkipWs(s, colon + 1))
        after == SkipWs(s, v.next)
        all   == Append(acc, [key |-> k.key, val |-> v.val])
    IN  IF ~k.ok THEN NoObject
        ELSE IF CharAt(s, colon) # ":" THEN NoObject
        ELSE IF ~v.ok THEN NoObject
        ELSE IF CharAt(s, after) = "," THEN ParseMembers(s, after + 1, all)
        ELSE IF CharAt(s, after) = "}" /\ SkipWs(s, after + 1) = Len(s) + 1
             THEN [ok |-> TRUE, members |-> all]
        ELSE NoObject

\* line 281, json.loads(results_json): ok is FALSE where it raises
JsonLoads(s) ==
    LET open  == SkipWs(s, 1)
        first == SkipWs(s, open + 1)
    IN  IF CharAt(s, open) # "{" THEN NoObject
        ELSE IF CharAt(s, first) = "}"
             THEN [ok |-> SkipWs(s, first + 1) = Len(s) + 1, members |-> <<>>]
        ELSE ParseMembers(s, open + 1, <<>>)

\* preview.get(key, default): of the members under one key the last one counts
Get(members, key, default) ==
    LET at == {i \in 1..Len(members) : members[i].key = key}
    IN  IF at = {} THEN default
        ELSE members[CHOOSE i \in at : \A j \in at : j <= i].val

\* line 282
RowsReturnedNote(members) ==
    <<"R","o","w","s"," ","r","e","t","u","r","n","e","d",":"," ">> \o Str(Get(members, ReturnedRowsKey, 0))
        \o <<" ","(","o","f"," ">> \o Str(Get(members, RowCountKey, 0)) \o <<")">>

\* the mutant of Meta: no try, the note is built from an empty object when
\* json.loads fails
MetaOfEmptyOnFailure(results) ==
    IF JsonLoads(results).ok THEN RowsReturnedNote(JsonLoads(results).members)
                             ELSE RowsReturnedNote(<<>>)

\* lines 279-284: the note, or the empty text when json.loads raises
Meta(results) ==
    IF JsonLoads(results).ok THEN RowsReturnedNote(JsonLoads(results).members) ELSE <<>>

----------------------------------------------------------------------------
(* chat: one run of the message handler. Each agent stream delivers chunks *)
(* and then its Response; the handler acts on each as it arrives.          *)

\* the content of the user message, carried into the prompts as it is
MessageContent == "message.content"

\* an outgoing cl.Message, by the place that sends it
Msg(kind, content) == [kind |-> kind, content |-> content]

\* chunks of the router stream when the router is the subject
RouterChunks ==
    { RouteLabel, <<"r","o","u","t","e",":">>, <<" ">>, <<"\n">>, SqlWord, <<"s","q","l">>, <<"G","E","N","E","R","A","L">> }

\* chunks of the router stream otherwise: the two replies the router is told
\* to give
PlainRouterChunks == { <<"R","O","U","T","E",":"," ","S","Q","L">>, <<"R","O","U","T","E",":"," ","G","E","N","E","R","A","L">> }

\* chunks of sql_agent's stream
SqlChunks ==
    { <<"S","Q","L",":"," ">>,
      <<"s","e","l","e","c","t"," ","1">>,
      <<"\n","R","E","S","U","L","T","_","J","S","O","N",":"," ","{","}">>,
      <<"\n","R","E","S","U","L","T","_","J","S","O","N",":"," ","{",DoubleQuote,"r","o","w","_","c","o","u","n","t",DoubleQuote,":","3",",",DoubleQuote,"r","e","t","u","r","n","e","d","_","r","o","w","s",DoubleQuote,":","2","}">>,
      <<"}">> }

\* chunks of sql_agent's stream when it is not the subject: a whole answer
PlainSqlChunks == { <<"S","Q","L",":"," ","s","e","l","e","c","t"," ","1","\n","R","E","S","U","L","T","_","J","S","O","N",":"," ","{","}">> }

\* chunks of general_agent's and summarizer_agent's streams
AnswerChunks == { <<"o","k">>, <<" ">> }

InitChat ==
    /\ pc = "start"
    /\ route_text = <<>> /\ route = "unset" /\ response = NoResponse
    /\ agent_output = <<>> /\ generated_sql = <<>> /\ results_json = <<>>
    /\ summary_prompt = NoPrompt /\ summary_text = <<>> /\ outbox = <<>>
    /\ invoked = <<>> /\ tool_calls = 0 /\ chunk_count = 0
    /\ streaming = {} /\ delivered = <<>>
    /\ CleanIdle
    /\ QueryIdle

\* lines 212-224: a message arrives; the router is asked
OnMessage ==
    /\ pc = "start"
    /\ route_text' = <<>>
    /\ invoked' = Append(invoked, "router_agent")
    /\ chunk_count' = 0
    /\ pc' = "router"
    /\ streaming' = streaming \cup {"router_agent"}
    /\ delivered' = <<>>
    /\ UNCHANGED <<route, response, agent_output, generated_sql, results_json,
                   summary_prompt, summary_text, outbox, tool_calls,
                   clean_vars, query_vars>>

\* lines 225-226: a chunk of the router stream
RouterChunk(alphabet, most) ==
    /\ pc = "router"
    /\ chunk_count < most
    /\ \E c \in alphabet :
        /\ route_text' = route_text \o c
        /\ delivered' = Append(delivered, c)
    /\ chunk_count' = chunk_count + 1
    /\ UNCHANGED streaming
    /\ UNCHANGED <<pc, route, response, agent_output, generated_sql, results_json,
                   summary_prompt, summary_text, outbox, invoked, tool_calls,
                   clean_vars, query_vars>>

\* lines 227-249: the Response of the router ends its stream; the text is
\* stripped, the route decided, and the agent of that route is asked
RouterResponse ==
    /\ pc = "router"
    /\ route_text' = Strip(route_text)
    /\ route' = IF RouteSearch(Strip(route_text)) THEN "SQL" ELSE "GENERAL"
    /\ IF RouteSearch(Strip(route_text))
       THEN /\ agent_output' = <<>>
            /\ invoked' = Append(invoked, "sql_agent")
            /\ pc' = "sql"
            /\ UNCHANGED response
       ELSE /\ response' = [content |-> <<>>, streamed |-> 0, sent |-> FALSE]
            /\ invoked' = Append(invoked, "general_agent")
            /\ pc' = "general"
            /\ UNCHANGED agent_output
    /\ chunk_count' = 0
    /\ streaming' = (streaming \ {"router_agent"})
                      \cup {IF RouteSearch(Strip(route_text)) THEN "sql_agent" ELSE "general_agent"}
    /\ delivered' = <<>>
    /\ UNCHANGED <<generated_sql, results_json, summary_prompt, summary_text,
                   outbox, tool_calls, clean_vars, query_vars>>

\* lines 241-242: a chunk of general_agent is streamed into the response
GeneralChunk(alphabet, most) ==
    /\ pc = "general"
    /\ chunk_count < most
    /\ \E c \in alphabet :
        /\ response' = [response EXCEPT !.content = @ \o c, !.streamed = @ + 1]
        /\ delivered' = Append(delivered, c)
    /\ chunk_count' = chunk_count + 1
    /\ UNCHANGED streaming
    /\ UNCHANGED <<pc, route_text, route, agent_output, generated_sql, results_json,
                   summary_prompt, summary_text, outbox, invoked, tool_calls,
                   clean_vars, query_vars>>

\* the mutant of GeneralResponse: the return of line 245 is missing and the
\* handler goes on into the SQL route
GeneralResponseNoReturn ==
    /\ pc = "general"
    /\ response' = [response EXCEPT !.sent = TRUE]
    /\ outbox' = Append(outbox, Msg("general", response.content))
    /\ agent_output' = <<>>
    /\ invoked' = Append(invoked, "sql_agent")
    /\ chunk_count' = 0
    /\ pc' = "sql"
    /\ streaming' = (streaming \ {"general_agent"}) \cup {"sql_agent"}
    /\ delivered' = <<>>
    /\ UNCHANGED <<route_text, route, generated_sql, results_json,
                   summary_prompt, summary_text, tool_calls,
                   clean_vars, query_vars>>

\* lines 243-245: the Response of general_agent: the response is sent and the
\* handler returns
GeneralResponse ==
    /\ pc = "general"
    /\ response' = [response EXCEPT !.sent = TRUE]
    /\ outbox' = Append(outbox, Msg("general", response.content))
    /\ pc' = "done"
    /\ streaming' = streaming \ {"general_agent"}
    /\ UNCHANGED delivered
    /\ UNCHANGED <<route_text, route, agent_output, generated_sql, results_json,
                   summary_prompt, summary_text, invoked, tool_calls, chunk_count,
                   clean_vars, query_vars>>

\* lines 263-265: a chunk of sql_agent is buffered
SqlChunk(alphabet, most) ==
    /\ pc = "sql"
    /\ chunk_count < most
    /\ \E c \in alphabet :
        /\ agent_output' = agent_output \o c
        /\ delivered' = Append(delivered, c)
    /\ chunk_count' = chunk_count + 1
    /\ UNCHANGED streaming
    /\ UNCHANGED <<pc, route_text, route, response, generated_sql, results_json,
                   summary_prompt, summary_text, outbox, invoked, tool_calls,
                   clean_vars, query_vars>>

\* the mutant of ToolCall: the summarizer holds the tool as well
ToolCallBySummarizerToo ==
    /\ pc \in {"sql", "summary"}
    /\ tool_calls < MaxToolCalls
    /\ tool_calls' = tool_calls + 1
    /\ UNCHANGED <<streaming, delivered>>
    /\ UNCHANGED <<pc, route_text, route, response, agent_output, generated_sql,
                   results_json, summary_prompt, summary_text, outbox, invoked,
                   chunk_count, clean_vars, query_vars>>

\* lines 110-113 and 249: while its stream runs sql_agent, the one agent that
\* holds the tool, may call run_postgres_query
ToolCall ==
    /\ pc = "sql"
    /\ tool_calls < MaxToolCalls
    /\ tool_calls' = tool_calls + 1
    /\ UNCHANGED <<streaming, delivered>>
    /\ UNCHANGED <<pc, route_text, route, response, agent_output, generated_sql,
                   results_json, summary_prompt, summary_text, outbox, invoked,
                   chunk_count, clean_vars, query_vars>>

\* the mutant of SqlMessages: the note is sent before the generated SQL
SqlMessagesNoteFirst(text) ==
    (IF Meta(ExtractJson(text)) # <<>>
     THEN <<Msg("preview", ExecutedQueryPrefix \o Meta(ExtractJson(text)))>>
     ELSE <<>>)
    \o
    (IF ExtractSql(text) # <<>> /\ ExtractSql(text) # EmptySqlSentinel
     THEN <<Msg("generated_sql", GeneratedSqlPrefix \o ExtractSql(text))>>
     ELSE <<>>)

\* lines 275-286: the messages sent once the output is read: the generated SQL
\* unless it is empty or the sentinel, then the note unless it is empty
SqlMessages(text) ==
    (IF ExtractSql(text) # <<>> /\ ExtractSql(text) # EmptySqlSentinel
     THEN <<Msg("generated_sql", GeneratedSqlPrefix \o ExtractSql(text))>>
     ELSE <<>>)
    \o
    (IF Meta(ExtractJson(text)) # <<>>
     THEN <<Msg("preview", ExecutedQueryPrefix \o Meta(ExtractJson(text)))>>
     ELSE <<>>)

\* lines 266-301: the Response of sql_agent ends its stream; the output is
\* stripped, the SQL and the results are read off it, the messages are sent,
\* the prompt is built and the summarizer is asked
SqlResponse ==
    /\ pc = "sql"
    /\ agent_output' = Strip(agent_output)
    /\ generated_sql' = ExtractSql(Strip(agent_output))
    /\ results_json' = ExtractJson(Strip(agent_output))
    /\ outbox' = outbox \o SqlMessages(Strip(agent_output))
    /\ summary_prompt' = [request |-> MessageContent,
                          sql     |-> ExtractSql(Strip(agent_output)),
                          results |-> ExtractJson(Strip(agent_output))]
    /\ summary_text' = <<>>
    /\ invoked' = Append(invoked, "summarizer_agent")
    /\ chunk_count' = 0
    /\ pc' = "summary"
    /\ streaming' = (streaming \ {"sql_agent"}) \cup {"summarizer_agent"}
    /\ delivered' = <<>>
    /\ UNCHANGED <<route_text, route, response, tool_calls, clean_vars, query_vars>>

\* the mutant of SummaryChunk: the chunk is buffered and also sent on as it
\* arrives
SummaryChunkForwarded(alphabet, most) ==
    /\ pc = "summary"
    /\ chunk_count < most
    /\ \E c \in alphabet :
        /\ summary_text' = summary_text \o c
        /\ delivered' = Append(delivered, c)
        /\ outbox' = Append(outbox, Msg("summary", c))
    /\ chunk_count' = chunk_count + 1
    /\ UNCHANGED streaming
    /\ UNCHANGED <<pc, route_text, route, response, agent_output, generated_sql,
                   results_json, summary_prompt, invoked, tool_calls,
                   clean_vars, query_vars>>

\* lines 303-304: a chunk of summarizer_agent is buffered
SummaryChunk(alphabet, most) ==
    /\ pc = "summary"
    /\ chunk_count < most
    /\ \E c \in alphabet :
        /\ summary_text' = summary_text \o c
        /\ delivered' = Append(delivered, c)
    /\ chunk_count' = chunk_count + 1
    /\ UNCHANGED streaming
    /\ UNCHANGED <<pc, route_text, route, response, agent_output, generated_sql,
                   results_json, summary_prompt, outbox, invoked, tool_calls,
                   clean_vars, query_vars>>

\* the mutant of SummaryResponse: an empty summary is not sent
SummaryResponseSkipsEmpty ==
    /\ pc = "summary"
    /\ outbox' = IF Strip(summary_text) # <<>>
                 THEN Append(outbox, Msg("summary", Strip(summary_text)))
                 ELSE outbox
    /\ pc' = "done"
    /\ streaming' = streaming \ {"summarizer_agent"}
    /\ UNCHANGED delivered
    /\ UNCHANGED <<route_text, route, response, agent_output, generated_sql,
                   results_json, summary_prompt, summary_text, invoked, tool_calls,
                   chunk_count, clean_vars, query_vars>>

\* lines 305-306: the Response of summarizer_agent: the summary is sent, stripped,
\* and the handler ends
SummaryResponse ==
    /\ pc = "summary"
    /\ outbox' = Append(outbox, Msg("summary", Strip(summary_text)))
    /\ pc' = "done"
    /\ streaming' = streaming \ {"summarizer_agent"}
    /\ UNCHANGED delivered
    /\ UNCHANGED <<route_text, route, response, agent_output, generated_sql,
                   results_json, summary_prompt, summary_text, invoked, tool_calls,
                   chunk_count, clean_vars, query_vars>>

\* the handler with sql_agent's output as the subject
Next ==
    \/ OnMessage
    \/ RouterChunk(PlainRouterChunks, MaxPlainChunks)
    \/ RouterResponse
    \/ GeneralChunk(AnswerChunks, MaxAnswerChunks)
    \/ GeneralResponse
    \/ SqlChunk(SqlChunks, MaxSqlChunks)
    \/ ToolCall
    \/ SqlResponse
    \/ SummaryChunk(AnswerChunks, MaxAnswerChunks)
    \/ SummaryResponse

Spec == InitChat /\ [][Next]_vars

\* the step that ends the phase the handler is in: the message is taken up, or
\* the Response of the stream being read arrives and is acted on
StreamCompletes ==
    /\ pc # "done"
    /\ pc' \in {"router", "general", "sql", "summary", "done"} \ {pc}

\* the handler when every stream it reads comes to its end: a stream delivers
\* its chunks, at most as many as the bound allows, and then its Response, for
\* which the handler is waiting, so the phase of the handler does not last for
\* ever
SpecLive == InitChat /\ [][Next]_vars /\ WF_pc(StreamCompletes)

\* the handler with the router's text as the subject
NextRoute ==
    \/ OnMessage
    \/ RouterChunk(RouterChunks, MaxRouterChunks)
    \/ RouterResponse
    \/ GeneralChunk(AnswerChunks, MaxPlainChunks)
    \/ GeneralResponse
    \/ SqlChunk(PlainSqlChunks, MaxPlainChunks)
    \/ ToolCall
    \/ SqlResponse
    \/ SummaryChunk(AnswerChunks, MaxPlainChunks)
    \/ SummaryResponse

SpecRoute == InitChat /\ [][NextRoute]_vars

----------------------------------------------------------------------------
(* Properties of _clean_sql, checked under SpecClean.                      *)

QuoteChars == {Apostrophe, DoubleQuote}

\* the positions of the fence markers of a text
FencePositions(t) == {i \in 1..Len(t) : HasAt(t, i, Fence)}

\* the text opens with a fence marker and holds a closing one further on, with
\* some SQL in between
HasFencedBlock(t) ==
    /\ HasAt(Strip(t), 1, Fence)
    /\ \E j \in FencePositions(Strip(t)) :
           \E k \in (Len(Fence) + 1)..(j - 1) : Strip(t)[k] \in WordChars

RECURSIVE WithoutFences(_)
\* a text with its fence markers, and the tag of a tagged one, left out
WithoutFences(t) ==
    IF t = <<>> THEN <<>>
    ELSE IF HasAtCI(t, 1, FenceSql) THEN WithoutFences(Drop(t, Len(FenceSql)))
    ELSE IF HasAt(t, 1, Fence) THEN WithoutFences(Drop(t, Len(Fence)))
    ELSE <<t[1]>> \o WithoutFences(Tail(t))

\* the statements of a text that hold some SQL
SqlStatements(t) ==
    SelectSeq(Statements(ReplaceNewlines(WithoutFences(t))),
              LAMBDA p : Range(p) \cap WordChars # {})

FenceFree(t) == FencePositions(t) = {}

NewlineFree(t) == "\n" \notin Range(t)

\* no quote character surrounds the text
QuoteFree(t) == t = <<>> \/ (t[1] \notin QuoteChars /\ t[Len(t)] \notin QuoteChars)

\* C9 as stated: whenever the input holds a fenced SQL block and more than one
\* semicolon-delimited statement, the result is a single statement with no fence
\* marker, no newline and no surrounding quote character.
C9_AnyFencedInputCleaned ==
    (/\ clean_pc = "done"
     /\ HasFencedBlock(sql_text)
     /\ Len(SqlStatements(sql_text)) >= 2)
    => (/\ ";" \notin Range(cleaned)
        /\ FenceFree(cleaned)
        /\ NewlineFree(cleaned)
        /\ QuoteFree(cleaned))

\* the text is only a code fence, or only punctuation
OnlyFenceOrPunctuation(t) ==
    /\ t # <<>>
    /\ \/ Strip(t) \in {Fence, FenceSql}
       \/ Range(t) \subseteq {";", Apostrophe, DoubleQuote, Backtick}

\* C10 as stated: an input that is only a code fence or only punctuation is
\* cleaned to the empty string.
C10_PunctuationCleanedToEmpty ==
    (clean_pc = "done" /\ OnlyFenceOrPunctuation(sql_text)) => cleaned = <<>>

----------------------------------------------------------------------------
(* Properties of run_postgres_query, checked under SpecQuery.              *)

\* the call is past its check of the statement
QChecked == q_pc \in {"raised", "connected", "finally", "returned"}

\* the call has ended
QEnded == q_pc \in {"raised", "returned"}

\* C1: a call whose sanitized statement does not start with the word select
\* (leading whitespace aside, letter case ignored) ends in the rejection error
\* ValueError with no connection opened and nothing sent to the database; so do
\* the statements that start with drop or with.
C1_RejectedBeforeConnect ==
    /\ (QChecked /\ ~SelectMatch(_clean_sql(sql)))
       => (/\ q_pc = "raised"
           /\ q_error = "ValueError"
           /\ conns_opened = 0
           /\ ~conn_open
           /\ executed = <<>>)
    /\ (QChecked /\ (HasAtCI(sql, 1, <<"d","r","o","p">>) \/ HasAtCI(sql, 1, <<"w","i","t","h">>)))
       => (q_error = "ValueError" /\ conns_opened = 0)

\* a statement that starts with the word with and goes on to select was rejected
C1_Witness ==
    /\ q_pc = "raised"
    /\ q_error = "ValueError"
    /\ HasAtCI(sql, 1, <<"w","i","t","h">>)
    /\ Contains(Lower(sql), SelectKw)
    /\ conns_opened = 0

\* C2: a call opens at most one connection, a connection is open only between
\* connect and the finally block, and when the call has ended, by return or by
\* any error, every connection it opened has been closed.
C2_ConnectionAlwaysClosed ==
    /\ conns_opened <= 1
    /\ conn_open => q_pc \in {"connected", "finally"}
    /\ QEnded => (~conn_open /\ conns_closed = conns_opened)

\* the query raised in the database, or the payload failed to serialize, and the
\* error left the call with the connection closed
C2_Witness ==
    /\ q_pc = "raised"
    /\ q_error \in {"PostgresError", "TypeError"}
    /\ conns_opened = 1
    /\ conns_closed = 1
    /\ ~conn_open

\* C3 as stated: for every integer max_rows the payload returned has
\* returned_rows <= max_rows and returned_rows <= row_count.
C3_ReturnedRowsBounded ==
    q_pc = "returned"
    => (/\ payload.returned_rows <= max_rows
        /\ payload.returned_rows <= payload.row_count
        /\ payload.row_count = Len(db_rows))

\* C4 as stated: in the payload returned, columns is empty exactly when rows is
\* empty.
C4_ColumnsEmptyIffRowsEmpty ==
    q_pc = "returned" => (payload.columns = <<>> <=> payload.rows = <<>>)

\* C4 as amended: columns is empty whenever rows is empty, and when rows is not
\* empty columns is empty exactly when the result rows have no columns.
C4_ColumnsEmptyIffNoCells ==
    q_pc = "returned"
    => (/\ payload.rows = <<>> => payload.columns = <<>>
        /\ payload.rows # <<>>
           => (/\ payload.columns = <<>> <=> payload.rows[1] = <<>>
               /\ Len(payload.columns) = Len(payload.rows[1])))

\* a result of rows without columns was returned: rows is not empty, columns is
C4_Witness ==
    /\ q_pc = "returned"
    /\ payload.rows # <<>>
    /\ payload.columns = <<>>
    /\ max_rows > 0

----------------------------------------------------------------------------
(* Properties of chat, checked under SpecRoute (C5) and Spec (C6 to C8).   *)

\* the route has been decided
Routed == pc \in {"general", "sql", "summary", "done"}

\* the handler is where the route leads: with an agent of that route, or done
OnItsRoute ==
    IF route = "SQL" THEN pc \in {"sql", "summary", "done"}
                     ELSE pc \in {"general", "done"}

\* the text contains, letter case ignored, the substring ROUTE: SQL
C5_ContainsRouteSql(t) == Contains(Lower(t), Lower(<<"R","O","U","T","E",":"," ","S","Q","L">>))

\* the text contains, letter case ignored, ROUTE: and then SQL with nothing but
\* whitespace, if anything, between the two
C5_LabelThenWord(t) ==
    \E i \in 1..Len(t) : \E j \in (i + 6)..Len(t) :
        /\ Lower(SubSeq(t, i, i + 5)) = <<"r","o","u","t","e",":">>
        /\ \A k \in (i + 6)..(j - 1) : t[k] \in Whitespace
        /\ j + 2 <= Len(t)
        /\ Lower(SubSeq(t, j, j + 2)) = <<"s","q","l">>

\* C5 as stated: once the router stream is complete, the route is SQL exactly
\* when the router text contains, letter case ignored, the substring
\* ROUTE: SQL, and GENERAL for every other text, with no error.
C5_RouteSqlIffSubstring ==
    Routed
    => (/\ route \in {"SQL", "GENERAL"}
        /\ route = "SQL" <=> C5_ContainsRouteSql(route_text)
        /\ OnItsRoute)

\* C5 as amended: once the router stream is complete, the route is SQL exactly
\* when the router text contains, letter case ignored, ROUTE: followed by zero
\* or more whitespace characters and then SQL (so also for ROUTE:SQL and for
\* ROUTE: and SQL on two lines), and GENERAL for every other text; the handler
\* goes on along that route and no error is signalled.
C5_RouteSqlIffLabelThenWord ==
    Routed
    => (/\ route \in {"SQL", "GENERAL"}
        /\ route = "SQL" <=> C5_LabelThenWord(route_text)
        /\ C5_ContainsRouteSql(route_text) => route = "SQL"
        /\ OnItsRoute)

\* a router text in lower case with no space after the colon went the SQL way
C5_Witness ==
    /\ Routed
    /\ route = "SQL"
    /\ route_text = <<"r","o","u","t","e",":","s","q","l">>
    /\ ~C5_ContainsRouteSql(route_text)

\* the output of sql_agent for a request that is no data request: an empty SQL
\* line and an empty object
C6_Output == <<"S","Q","L",":"," ","\n","R","E","S","U","L","T","_","J","S","O","N",":"," ","{","}">>

\* C6 as stated: when the output of sql_agent is an empty SQL line and
\* RESULT_JSON: {}, no generated-SQL message and no row-count note is sent,
\* the summarizer is asked with the empty object, and the summary is the only
\* message of the turn.
C6_EmptySqlOnlySummary ==
    (pc = "done" /\ route = "SQL" /\ agent_output = C6_Output)
    => (/\ summary_prompt.results = EmptyObject
        /\ invoked[Len(invoked)] = "summarizer_agent"
        /\ outbox = <<Msg("summary", Strip(summary_text))>>)

\* the results object with row_count n and returned_rows r
C7_Counts(n, r) ==
    <<"{",DoubleQuote,"r","o","w","_","c","o","u","n","t",DoubleQuote,":">> \o Str(n) \o <<",",DoubleQuote,"r","e","t","u","r","n","e","d","_","r","o","w","s",DoubleQuote,":">> \o Str(r) \o <<"}">>

\* an SQL line holding q, then the RESULT_JSON line with those counts
C7_Output(q, n, r) == <<"S","Q","L",":"," ">> \o q \o <<"\n","R","E","S","U","L","T","_","J","S","O","N",":"," ">> \o C7_Counts(n, r)

\* the text between the label of the SQL line and the first line end
C7_SqlLine(t) == SubSeq(t, 6, (CHOOSE k \in 1..Len(t) : t[k] = "\n" /\ \A j \in 1..(k - 1) : t[j] # "\n") - 1)

\* the output is an SQL line with a plain non-empty statement and a RESULT_JSON
\* line with counts n and r
C7_Carries(t, n, r) ==
    /\ "\n" \in Range(t)
    /\ Len(t) >= 6
    /\ C7_SqlLine(t) # <<>>
    /\ Range(C7_SqlLine(t)) \subseteq WordChars \cup {" "}
    /\ Strip(C7_SqlLine(t)) = C7_SqlLine(t)
    /\ t = C7_Output(C7_SqlLine(t), n, r)

\* C7: on the SQL route, when the output of sql_agent is a non-empty SQL line
\* and a RESULT_JSON object with returned_rows r and row_count n, then before
\* the summary the messages sent are the generated SQL and the note
\* Rows returned: r (of n), in this order, and at the end of the turn the
\* messages are exactly these two and then the summary.
C7_SqlThenNoteThenSummary ==
    \A n \in 0..MaxCount, r \in 0..MaxCount :
        (pc \in {"summary", "done"} /\ route = "SQL" /\ C7_Carries(agent_output, n, r))
        => LET sent == <<Msg("generated_sql",
                             GeneratedSqlPrefix \o C7_SqlLine(agent_output)),
                         Msg("preview",
                             <<"E","x","e","c","u","t","e","d"," ","q","u","e","r","y","."," ","R","o","w","s"," ","r","e","t","u","r","n","e","d",":"," ">> \o Str(r)
                                 \o <<" ","(","o","f"," ">> \o Str(n) \o <<")">>)>>
           IN  /\ pc = "summary" => outbox = sent
               /\ pc = "done"
                  => outbox = Append(sent, Msg("summary", Strip(summary_text)))

\* a turn whose output carried a statement, 2 rows returned of 3, has ended
C7_Witness ==
    /\ pc = "done"
    /\ route = "SQL"
    /\ C7_Carries(agent_output, 3, 2)
    /\ Len(outbox) = 3
    /\ outbox[3].content # <<>>

\* C8: whenever the route is GENERAL only router_agent and general_agent have
\* been asked, the query tool has not run, every message sent is the answer of
\* general_agent, and the handler is either streaming that answer or, its
\* stream complete, done with the one answer sent.
C8_GeneralRouteOnlyGeneral ==
    route = "GENERAL"
    => (/\ Range(invoked) \subseteq {"router_agent", "general_agent"}
        /\ tool_calls = 0
        /\ q_pc = "idle"
        /\ \A i \in 1..Len(outbox) : outbox[i].kind = "general"
        /\ pc \in {"general", "done"}
        /\ pc = "general" => (outbox = <<>> /\ ~response.sent)
        /\ pc = "done" => (response.sent /\ outbox = <<Msg("general", response.content)>>))

\* a turn on the GENERAL route has ended with a streamed answer sent
C8_Witness ==
    /\ route = "GENERAL"
    /\ pc = "done"
    /\ response.streamed > 0
    /\ outbox = <<Msg("general", response.content)>>

----------------------------------------------------------------------------
(* More properties of run_postgres_query, checked under SpecQuery.         *)

\* the payload has been built from the rows fetched
PayloadBuilt == q_pc \in {"finally", "returned"} /\ q_pending # "PostgresError"

\* C11: in the rows of the payload every string cell whose original value is
\* longer than 2000 characters has exactly 2000 characters, the first 1997 of
\* the original and then three dots; every string cell of at most 2000
\* characters and every cell that is no string is the original value.
C11_LongCellsCutTo2000 ==
    PayloadBuilt
    => \A i \in 1..Len(payload.rows) :
         /\ Len(payload.rows[i]) = Len(db_rows[i])
         /\ \A j \in 1..Len(payload.rows[i]) :
              LET original == db_rows[i][j]
                  cell     == payload.rows[i][j]
              IN  IF original.kind = "str" /\ Len(original.text) > 2000
                  THEN /\ cell.kind = "str"
                       /\ Len(cell.text) = 2000
                       /\ SubSeq(cell.text, 1, 1997) = SubSeq(original.text, 1, 1997)
                       /\ SubSeq(cell.text, 1998, 2000) = <<".", ".", ".">>
                  ELSE cell = original

\* a payload was returned with a cell cut from 2001 characters to 2000 and,
\* in another row, a cell of 2000 characters kept whole
C11_Witness ==
    /\ q_pc = "returned"
    /\ Len(payload.rows) = 2
    /\ Len(payload.rows[1]) = 1
    /\ Len(db_rows[1][1].text) = 2001
    /\ Len(payload.rows[1][1].text) = 2000
    /\ payload.rows[1][1].text[2000] = "."
    /\ Len(db_rows[2][1].text) = 2000
    /\ payload.rows[2][1] = db_rows[2][1]

----------------------------------------------------------------------------
(* More properties of chat, checked under Spec.                            *)

\* the orders in which one turn may have asked its agents so far
C12_Orders ==
    { <<>>,
      <<"router_agent">>,
      <<"router_agent", "general_agent">>,
      <<"router_agent", "sql_agent">>,
      <<"router_agent", "sql_agent", "summarizer_agent">> }

\* at most one stream is open, that of the agent asked last, and the agents
\* have been asked in one of the fixed orders
C12_OneStreamInOrder ==
    /\ Cardinality(streaming) <= 1
    /\ invoked \in C12_Orders
    /\ streaming # {} => streaming = {invoked[Len(invoked)]}

\* a step that asks an agent leaves open the stream of that agent alone, the
\* stream read before it having been closed by that very step or earlier; a
\* step that calls the query tool is taken while the stream of sql_agent is the
\* open one and the summarizer has not been asked
C12_StepInOrder ==
    /\ invoked' # invoked
       => (/\ Len(invoked') = Len(invoked) + 1
           /\ streaming' = {invoked'[Len(invoked')]}
           /\ IF invoked = <<>> THEN streaming = {}
                                 ELSE streaming \subseteq {invoked[Len(invoked)]})
    /\ tool_calls' # tool_calls
       => (/\ streaming = {"sql_agent"}
           /\ streaming' = {"sql_agent"}
           /\ "summarizer_agent" \notin Range(invoked))

\* C12: within one turn at most one agent stream is open at any time; the
\* agents are asked in a fixed order, router_agent, then general_agent alone or
\* sql_agent and then summarizer_agent; no agent is asked while the stream of
\* the one before is still open; the query tool is called only inside the
\* step of sql_agent, before the summarizer is asked.
C12_SequentialAgents == [](C12_OneStreamInOrder) /\ [][C12_StepInOrder]_vars

\* a turn on the SQL route has ended with all three agents asked in order and
\* the tool called once
C12_Witness ==
    /\ pc = "done"
    /\ invoked = <<"router_agent", "sql_agent", "summarizer_agent">>
    /\ tool_calls = 1
    /\ streaming = {}

\* the text has no SQL label, or nothing but whitespace between its first SQL
\* label and the end of that line
C13_NoSqlLine(t) ==
    \/ \A i \in 1..Len(t) : ~HasAt(t, i, <<"S","Q","L",":">>)
    \/ \E i \in 1..Len(t) :
        /\ HasAt(t, i, <<"S","Q","L",":">>)
        /\ \A h \in 1..(i - 1) : ~HasAt(t, h, <<"S","Q","L",":">>)
        /\ \E e \in (i + 4)..(Len(t) + 1) :
            /\ \A k \in (i + 4)..(e - 1) : t[k] \in {" ", "\t", "\r"}
            /\ IF e = Len(t) + 1 THEN TRUE ELSE t[e] = "\n"

\* C13 as stated: on the SQL route, whenever the output of sql_agent has an
\* empty SQL line or none, no generated-SQL message is sent, whatever the
\* RESULT_JSON line carries, and the summarizer is asked with the JSON text
\* found, or with the empty object when there is none.
C13_NoSqlNoMessage ==
    (pc \in {"summary", "done"} /\ route = "SQL" /\ C13_NoSqlLine(agent_output))
    => (/\ \A i \in 1..Len(outbox) : outbox[i].kind # "generated_sql"
        /\ "summarizer_agent" \in Range(invoked)
        /\ summary_prompt.results = results_json
        /\ ~Contains(agent_output, <<"R","E","S","U","L","T","_","J","S","O","N",":">>) => results_json = <<"{","}">>)

\* a row-count note is among the messages sent
C14_PreviewSent == \E i \in 1..Len(outbox) : outbox[i].kind = "preview"

\* C14: on the SQL route a row-count note is sent exactly when the extracted
\* results text parses as JSON; when it does not, the turn goes on all the
\* same: the summarizer is asked with the raw text and the turn ends with the
\* summary.
C14_ParseFailureSwallowed ==
    (pc \in {"summary", "done"} /\ route = "SQL")
    => (/\ C14_PreviewSent <=> JsonLoads(results_json).ok
        /\ ~JsonLoads(results_json).ok
           => (/\ invoked[Len(invoked)] = "summarizer_agent"
               /\ summary_prompt.results = results_json
               /\ results_json = ExtractJson(agent_output)
               /\ pc = "done" => outbox[Len(outbox)].kind = "summary"))

\* a turn whose results text had one closing brace too many has ended with the
\* summary sent and no note
C14_Witness ==
    /\ pc = "done"
    /\ route = "SQL"
    /\ results_json = <<"{","}","}">>
    /\ ~C14_PreviewSent
    /\ outbox = <<Msg("summary", Strip(summary_text))>>

RECURSIVE C15_Concat(_)
\* the chunks of a stream put together in arrival order
C15_Concat(cs) == IF cs = <<>> THEN <<>> ELSE Head(cs) \o C15_Concat(Tail(cs))

\* the summary messages among the messages sent
C15_Summaries == SelectSeq(outbox, LAMBDA m : m.kind = "summary")

\* nothing has been sent while sql_agent streams, no summary while the
\* summarizer streams
C15_NothingSentMeanwhile ==
    /\ pc = "sql" => outbox = <<>>
    /\ pc = "summary" => C15_Summaries = <<>>

\* a step that stays inside the stream of sql_agent or of the summarizer sends
\* nothing
C15_ChunksOnlyBuffered ==
    (pc \in {"sql", "summary"} /\ pc' = pc) => outbox' = outbox

\* C15 as stated: on the SQL route nothing is sent while sql_agent or the
\* summarizer streams, and the summary is one message, sent last, whose content
\* is the concatenation of all summarizer chunks in arrival order.
C15_SummaryIsConcatenation ==
    /\ C15_NothingSentMeanwhile
    /\ (pc = "done" /\ route = "SQL")
       => (/\ Len(C15_Summaries) = 1
           /\ outbox[Len(outbox)].kind = "summary"
           /\ outbox[Len(outbox)].content = C15_Concat(delivered))

\* the same with the content as the code sends it
C15_SummaryIsStrippedConcatenation ==
    /\ C15_NothingSentMeanwhile
    /\ pc = "summary" => summary_text = C15_Concat(delivered)
    /\ (pc = "done" /\ route = "SQL")
       => (/\ Len(C15_Summaries) = 1
           /\ outbox[Len(outbox)].kind = "summary"
           /\ outbox[Len(outbox)].content = Strip(C15_Concat(delivered)))

\* C15 as amended: on the SQL route no outgoing message is emitted while the
\* stream of sql_agent or of the summarizer is delivering chunks, the chunks
\* being only buffered, and the summary is sent as exactly one message, on the
\* completion signal of the summarizer stream, whose content is the
\* concatenation of all summarizer chunks in arrival order with its leading and
\* trailing whitespace stripped.
C15_SummarySentOnceStripped ==
    [](C15_SummaryIsStrippedConcatenation) /\ [][C15_ChunksOnlyBuffered]_vars

\* a turn has ended whose summarizer delivered a word and then a blank, and the
\* summary sent is the word alone
C15_Witness ==
    /\ pc = "done"
    /\ route = "SQL"
    /\ delivered = <<<<"o","k">>, <<" ">>>>
    /\ outbox[Len(outbox)] = Msg("summary", <<"o","k">>)

----------------------------------------------------------------------------
(* What reaches the database, checked under SpecQuery.                     *)

\* the pieces of a text between its semicolons, in order
C16_Pieces(t) == Split(t, ";")

\* the first piece of a text that holds more than whitespace
C16_FirstPiece(t) ==
    LET k == CHOOSE i \in 1..Len(C16_Pieces(t)) :
                 /\ Strip(C16_Pieces(t)[i]) # <<>>
                 /\ \A j \in 1..(i - 1) : Strip(C16_Pieces(t)[j]) = <<>>
    IN  Strip(C16_Pieces(t)[k])

\* the text starts with the word select, leading whitespace aside and letter
\* case ignored
C16_StartsWithSelect(t) ==
    \E i \in 1..Len(t) :
        /\ \A k \in 1..(i - 1) : t[k] \in Whitespace
        /\ i + 5 <= Len(t)
        /\ Lower(SubSeq(t, i, i + 5)) = <<"s","e","l","e","c","t">>
        /\ i + 6 <= Len(t) => t[i + 6] \notin WordChars

\* C16: whatever has been sent to the database is one statement, the sanitized
\* text on which the select check was made, never the raw input when that
\* holds a semicolon; it holds no semicolon itself, and of an input of several
\* statements (with no quote, fence or line end in it) it is the first piece
\* that is not empty; and it starts with the word select, leading whitespace
\* aside and letter case ignored.
C16_OnlyCheckedSelectExecuted ==
    /\ Len(executed) <= 1
    /\ executed # <<>>
       => (/\ executed[1] = sql_clean
           /\ executed[1] = _clean_sql(sql)
           /\ C16_StartsWithSelect(executed[1])
           /\ ";" \notin Range(executed[1])
           /\ ";" \in Range(sql) => executed[1] # sql)
    /\ (executed # <<>> /\ ";" \in Range(sql)
        /\ Range(sql) \cap {Apostrophe, DoubleQuote, Backtick, "\n"} = {})
       => executed[1] = C16_FirstPiece(sql)

\* a select followed by a second statement was given, and the select alone
\* was sent
C16_Witness ==
    /\ q_pc = "returned"
    /\ sql = <<"S","E","L","E","C","T"," ","1",";","d","r","o","p"," ","t">>
    /\ executed = <<<<"S","E","L","E","C","T"," ","1">>>>

----------------------------------------------------------------------------
(* Termination of chat, checked under SpecLive.                            *)

\* the final replies among the messages sent: the answer of general_agent or
\* the summary
C17_FinalReplies == SelectSeq(outbox, LAMBDA m : m.kind \in {"general", "summary"})

\* exactly one final reply has been sent, the one of the route, and it is the
\* last message
C17_OneFinalReply ==
    /\ Len(C17_FinalReplies) = 1
    /\ outbox[Len(outbox)] = C17_FinalReplies[1]
    /\ IF route = "GENERAL"
       THEN response.sent /\ C17_FinalReplies[1] = Msg("general", response.content)
       ELSE route = "SQL" /\ C17_FinalReplies[1] = Msg("summary", Strip(summary_text))

\* C17: when every stream delivers finitely many chunks and then its
\* completion signal, the handler comes to its end, takes no step after it,
\* and at its end has sent exactly one final reply: the message of
\* general_agent on the GENERAL route, the summary on the SQL route.
C17_TerminatesWithOneReply ==
    /\ <>(pc = "done")
    /\ [](pc = "done" => C17_OneFinalReply)
    /\ [][pc # "done"]_vars

\* a turn on the SQL route has ended with an SQL message, a note and, last, the
\* one summary
C17_Witness ==
    /\ pc = "done"
    /\ route = "SQL"
    /\ Len(outbox) = 3
    /\ Len(C17_FinalReplies) = 1
    /\ streaming = {}

====
